---- MODULE Spec2Model ----
(***************************************************************************)
(* Model of the chart cache (src/db.py): the DuckDB-backed Database, the   *)
(* cache-aside coordinator Storage.get_n_songs_for_date with its resolver  *)
(* Storage._fetch_data, and the analytics get_genres_count and             *)
(* get_popularity_over_time.                                               *)
(*                                                                         *)
(* Text is modelled as a tuple of one-character strings, so that split,    *)
(* strip and join are computed.  A JSON object is a record; a missing key  *)
(* is a field missing from the record's DOMAIN (Python's KeyError).        *)
(***************************************************************************)
EXTENDS Integers, Sequences, FiniteSets, TLC

\* ------------------------------------------------------------------ bounds

\* Requests one worker thread serves before it stops taking new ones.
MaxCalls == 2

\* ------------------------------------------------------- program constants

MAX_SONGS == 100

total_days == 30

\* ------------------------------------------------------------------- text

IsSpace(c) == c = " "

RECURSIVE LStrip(_)
LStrip(s) == IF s # <<>> /\ IsSpace(Head(s)) THEN LStrip(Tail(s)) ELSE s

RECURSIVE RStrip(_)
RStrip(s) ==
  IF s # <<>> /\ IsSpace(s[Len(s)]) THEN RStrip(SubSeq(s, 1, Len(s) - 1)) ELSE s

\* str.strip()
Strip(s) == RStrip(LStrip(s))

\* str.split(sep) for a one-character separator: the list of the pieces
\* between separators; a text without separator is one piece.
RECURSIVE SplitAcc(_, _, _)
SplitAcc(s, sep, cur) ==
  IF s = <<>> THEN <<cur>>
  ELSE IF Head(s) = sep THEN <<cur>> \o SplitAcc(Tail(s), sep, <<>>)
  ELSE SplitAcc(Tail(s), sep, Append(cur, Head(s)))

Split(s, sep) == SplitAcc(s, sep, <<>>)

\* sep.join(parts)
RECURSIVE Join(_, _)
Join(parts, sep) ==
  IF parts = <<>> THEN <<>>
  ELSE IF Len(parts) = 1 THEN parts[1]
  ELSE parts[1] \o <<sep>> \o Join(Tail(parts), sep)

\* --------------------------------------------------- the external services

\* Chart strings ("Artist and Title" cells of the listing).
K_AT == <<"a", " ", "-", " ", "t">>
K_BU == <<"b", " ", "-", " ", "u">>
K_CV == <<"c", " ", "-", " ", "v">>
K_DWX == <<"d", "-", "w", "-", "x">>
K_EY == <<"e", " ", "-", " ", "y">>
K_FZ == <<"f", " ", "-", " ", "z">>
K_GT == <<"g", " ", "-", " ", "t">>

Pop == <<"P", "o", "p">>
RnB == <<"R", "&", "B">>

\* The cover of the default dict (line 205).
PLACEHOLDER_COVER ==
  "https://i.pinimg.com/236x/b7/8d/3b/b78d3bd19d5b671b5f1bf779028ad6a8.jpg"

SearchHit(title, artist, album_id, cover) ==
  [title |-> title, artist |-> [name |-> artist],
   album |-> [id |-> album_id, cover_big |-> cover]]

\* The catalog's answer to GET /search?q=<q>: a JSON object.
DeezerSearch(q) ==
  CASE q = K_AT -> [data |-> << SearchHit(<<"t", "!">>, <<"r">>, 1, "cover1"),
                               SearchHit(<<"t">>, <<"A">>, 2, "cover2") >>]
    [] q = <<"u">> -> [data |-> << SearchHit(<<"u", "2">>, <<"B">>, 3, "cover3") >>]
    [] q = <<"w">> -> [data |-> << SearchHit(<<"w">>, <<"D">>, 4, "cover4") >>]
    [] q = <<"w", "-", "x">> -> [data |-> << SearchHit(<<"t">>, <<"X">>, 5, "cover5") >>]
    [] q = K_GT -> [data |-> << SearchHit(<<"T">>, <<"g">>, 1, "cover1"),
                               SearchHit(<<"t">>, <<"G">>, 5, "cover5") >>]
    [] q = K_EY -> [data |-> << SearchHit(<<"y">>, <<"E">>, 6, "cover6") >>]
    [] q = K_FZ -> [error |-> "quota"]
    [] OTHER -> [data |-> <<>>]

\* The catalog's answer to GET /album/<id>.
DeezerAlbum(album_id) ==
  CASE album_id = 1 -> [genres |-> [data |-> << [name |-> Pop] >>]]
    [] album_id = 2 -> [genres |-> [data |-> << [name |-> Pop], [name |-> RnB] >>]]
    [] album_id = 3 -> [genres |-> [data |-> <<>>]]
    [] album_id = 4 -> [genres |-> [data |-> << [name |-> RnB], [name |-> RnB] >>]]
    [] album_id = 5 -> [genres |-> [data |-> << [name |-> Pop] >>]]
    [] OTHER -> [error |-> "no data"]

\* ------------------------------------------------------------ the resolver

\* Faulty variant: the scan is skipped, the first result is always taken.
FirstTitleMatch_Skip(results, title, i) == 0

\* The first result whose title is exactly the parsed title, else 0.
RECURSIVE FirstTitleMatch(_, _, _)
FirstTitleMatch(results, title, i) ==
  IF i > Len(results) THEN 0
  ELSE IF results[i].title = title THEN i
  ELSE FirstTitleMatch(results, title, i + 1)

\* Lines 231-255: pick the result, look its album up, fill the song in.
\* queries are the searches this resolution has issued so far; calls counts
\* its remote calls, the album lookup included.
ResolveFrom(artist_title, search_data, title, queries) ==
  LET m == FirstTitleMatch(search_data.data, title, 1)
      hit == IF m # 0 THEN search_data.data[m] ELSE search_data.data[1]
      album_data == DeezerAlbum(hit.album.id)
  IN IF "genres" \notin DOMAIN album_data
       THEN [kind |-> "raise", calls |-> Len(queries) + 1, queries |-> queries]
       ELSE [kind |-> "song", calls |-> Len(queries) + 1, queries |-> queries,
             song |-> [artist_title |-> artist_title,
                       artist |-> hit.artist.name,
                       title |-> hit.title,
                       cover_url |-> hit.album.cover_big,
                       genres |-> [i \in 1..Len(album_data.genres.data) |->
                                     album_data.genres.data[i].name]]]

\* Storage._fetch_data._fetch_song_data: one chart string to a song dict
\* ("song"), to nothing ("none": the coroutine returns without appending),
\* or to an exception that leaves the coroutine ("raise").
\* The default dict of lines 201-207 (placeholder cover, no genres) is built
\* first, which raises IndexError for a string without '-', but no path
\* appends it unchanged: both not-found paths return before line 255.
_fetch_song_data(artist_title) ==
  LET parts == Split(artist_title, "-")
  IN IF Len(parts) < 2
       THEN [kind |-> "raise", calls |-> 0, queries |-> <<>>]
     ELSE
       LET title == Strip(parts[2])
           first == DeezerSearch(artist_title)
       IN IF "data" \notin DOMAIN first
            THEN [kind |-> "none", calls |-> 1, queries |-> <<artist_title>>]
          ELSE IF first.data # <<>>
            THEN ResolveFrom(artist_title, first, title, <<artist_title>>)
          ELSE
            LET second == DeezerSearch(title)
            IN IF "data" \notin DOMAIN second \/ second.data = <<>>
                 THEN [kind |-> "none", calls |-> 2,
                       queries |-> <<artist_title, title>>]
               ELSE ResolveFrom(artist_title, second, title,
                                <<artist_title, title>>)

\* _fetch_songs: every coroutine of the batch runs to its end (none of
\* them awaits), in order; gather re-raises the first exception.
RECURSIVE _fetch_songs(_)
_fetch_songs(songs_to_fetch) ==
  IF songs_to_fetch = <<>>
    THEN [raised |-> FALSE, songs |-> <<>>, calls |-> 0, queries |-> <<>>]
  ELSE
    LET r == _fetch_song_data(Head(songs_to_fetch))
        rest == _fetch_songs(Tail(songs_to_fetch))
    IN [raised |-> (r.kind = "raise") \/ rest.raised,
        songs |-> (IF r.kind = "song" THEN <<r.song>> ELSE <<>>) \o rest.songs,
        calls |-> r.calls + rest.calls,
        queries |-> <<r.queries>> \o rest.queries]

\* ------------------------------------------------------------ the database

\* cache.song rows are [artist_title, artist, title, cover_url, genres],
\* cache.ranking rows are [date, rank, artist_title]; a table is the
\* sequence of its rows in insertion order.

\* Faulty variant: cache.song created without its PRIMARY KEY.
SongKeyFree_NoKey(song_tbl, row) == TRUE

\* PRIMARY KEY of cache.song (line 20).
SongKeyFree(song_tbl, row) ==
  \A i \in 1..Len(song_tbl) : song_tbl[i].artist_title # row.artist_title

\* PRIMARY KEY (date, rank) of cache.ranking (line 31).
RankingKeyFree(ranking_tbl, row) ==
  \A i \in 1..Len(ranking_tbl) :
    ~(ranking_tbl[i].date = row.date /\ ranking_tbl[i].rank = row.rank)

\* Faulty variant: cache.ranking created without its FOREIGN KEY.
SongReferenced_NoFK(song_tbl, row) == TRUE

\* FOREIGN KEY(artist_title) REFERENCES cache.song (line 32).
SongReferenced(song_tbl, row) ==
  \E i \in 1..Len(song_tbl) : song_tbl[i].artist_title = row.artist_title

\* executemany of the INSERT INTO cache.song: one statement per parameter
\* set, each committed on its own; the first constraint error ends the
\* call and keeps the rows inserted before it.
RECURSIVE InsertSongRows(_, _)
InsertSongRows(song_tbl, data) ==
  IF data = <<>> THEN [tbl |-> song_tbl, err |-> "ok"]
  ELSE IF ~SongKeyFree(song_tbl, Head(data))
    THEN [tbl |-> song_tbl, err |-> "song_pk"]
  ELSE InsertSongRows(Append(song_tbl, Head(data)), Tail(data))

RECURSIVE InsertRankingRows(_, _, _)
InsertRankingRows(ranking_tbl, song_tbl, data) ==
  IF data = <<>> THEN [tbl |-> ranking_tbl, err |-> "ok"]
  ELSE IF ~RankingKeyFree(ranking_tbl, Head(data))
    THEN [tbl |-> ranking_tbl, err |-> "ranking_pk"]
  ELSE IF ~SongReferenced(song_tbl, Head(data))
    THEN [tbl |-> ranking_tbl, err |-> "ranking_fk"]
  ELSE InsertRankingRows(Append(ranking_tbl, Head(data)), song_tbl, Tail(data))

\* Database.song_cached
song_cached(song_tbl, artist_title) ==
  \E i \in 1..Len(song_tbl) : song_tbl[i].artist_title = artist_title

\* Faulty variant: the date never matches the INTEGER column, every lookup misses.
ranking_cached_Miss(ranking_tbl, date) == FALSE

\* Database.ranking_cached
ranking_cached(ranking_tbl, date) ==
  \E i \in 1..Len(ranking_tbl) : ranking_tbl[i].date = date

\* `song not in cached_songs` (line 54): song is a dict, cached_songs the
\* fetched rows, each a 1-tuple (artist_title,); a dict equals no tuple.
DictEqualsRow(song_dict, row_tuple) == FALSE

\* Database.cache_songs, lines 51-55: the songs to insert, given the rows
\* read from SELECT artist_title FROM cache.song.
songs_to_cache(songs, cached_songs) ==
  SelectSeq(songs, LAMBDA s :
    \A i \in 1..Len(cached_songs) : ~DictEqualsRow(s, cached_songs[i]))

\* Database.cache_songs, lines 60-66: the parameter sets.
SongData(songs) ==
  [i \in 1..Len(songs) |->
     [artist_title |-> songs[i].artist_title,
      artist |-> songs[i].artist,
      title |-> songs[i].title,
      cover_url |-> songs[i].cover_url,
      genres |-> Join(songs[i].genres, ";")]]

\* Database.cache_ranking, lines 80-84: the parameter sets.
RankingData(chart, date) ==
  [i \in 1..Len(chart) |-> [date |-> date, rank |-> i, artist_title |-> chart[i]]]

RECURSIVE Flatten(_)
Flatten(seqs) == IF seqs = <<>> THEN <<>> ELSE Head(seqs) \o Flatten(Tail(seqs))

MaxRank(ranking_tbl, date) ==
  LET ranks == {ranking_tbl[i].rank : i \in {j \in 1..Len(ranking_tbl) :
                                               ranking_tbl[j].date = date}}
  IN IF ranks = {} THEN 0 ELSE CHOOSE r \in ranks : \A q \in ranks : q <= r

\* Database.get_ranking: ranking JOIN song on artist_title, of one date,
\* ORDER BY rank; genres is the stored text split on ';'.
get_ranking(song_tbl, ranking_tbl, date) ==
  LET Joined(r) ==
        LET ss == SelectSeq(song_tbl, LAMBDA s : s.artist_title = r.artist_title)
        IN [i \in 1..Len(ss) |->
              [rank |-> r.rank, artist |-> ss[i].artist, title |-> ss[i].title,
               cover_url |-> ss[i].cover_url,
               genres |-> Split(ss[i].genres, ";")]]
      OfRank(k) ==
        LET rs == SelectSeq(ranking_tbl, LAMBDA r : r.date = date /\ r.rank = k)
        IN Flatten([i \in 1..Len(rs) |-> Joined(rs[i])])
  IN Flatten([k \in 1..MaxRank(ranking_tbl, date) |-> OfRank(k)])

Min(a, b) == IF a <= b THEN a ELSE b

\* lst[:n] for n >= 0
Prefix(lst, n) == SubSeq(lst, 1, Min(n, Len(lst)))

\* ------------------------------------------------------------------ state

VARIABLES
  song,               \* table cache.song
  ranking,            \* table cache.ranking
  listing,            \* the listing site: what the page of a date holds
  empty_many_raises,  \* the installed duckdb rejects executemany(query, [])
  th,                 \* per worker thread: its call of get_n_songs_for_date
  completed,          \* dates for which some call has ended (history)
  an,                 \* the analytics request (get_genres_count / popularity)
  lock,               \* Database.lock is held (threading.Lock, line 12)
  in_db               \* the threads inside a `with self.lock:` block

vars ==
  <<song, ranking, listing, empty_many_raises, th, completed, an, lock, in_db>>

Threads == {"t1", "t2"}

\* Dates of the requests of the concurrent specification (YYYYMMDD).
Dates == {20240101, 20240102}

\* top_n of a request (line 14 of app.py; 15 when absent).
TopNs == {0, 1, 3}

Page(rows) == [ok |-> TRUE, rows |-> rows]

\* A page that is unreachable or has no table: pd.read_html raises.
NoPage == [ok |-> FALSE, rows |-> <<>>]

Pages ==
  { Page(<<>>), Page(<<K_AT, K_BU>>), Page(<<K_BU, K_DWX>>),
    Page(<<K_BU, K_CV>>), Page(<<K_EY>>), NoPage }

\* The page of a date: the listing repeats with the period Len(listing).
PageOf(lst, date) == lst[(date % Len(lst)) + 1]

Idle(n) ==
  [pc |-> "idle", date |-> 0, ranking |-> <<>>, i |-> 0, songs_to_fetch |-> <<>>,
   songs |-> <<>>, out |-> <<>>, err |-> "none", net |-> 0, ncalls |-> n,
   hit |-> FALSE, repeat |-> FALSE, warm |-> FALSE, top_n |-> 0,
   queries |-> <<>>]

AnIdle == [pc |-> "off"]

Init ==
  /\ song = <<>>
  /\ ranking = <<>>
  /\ listing \in [1..2 -> Pages]
  /\ empty_many_raises \in BOOLEAN
  /\ th = [t \in Threads |-> Idle(0)]
  /\ completed = {}
  /\ an = AnIdle
  /\ lock = FALSE
  /\ in_db = {}

\* --------------------------------------- Storage.get_n_songs_for_date, by step

Fail(t, kind) == [th EXCEPT ![t].pc = "failed", ![t].err = kind]

\* A request reaches get_n_songs_for_date(date, top_n).
Call(t, d) ==
  /\ th[t].pc = "idle"
  /\ th[t].ncalls < MaxCalls
  /\ th' = [th EXCEPT ![t].pc = "ranking_cached", ![t].date = d,
                       ![t].ncalls = @ + 1,
                       ![t].repeat = (d \in completed),
                       ![t].warm = \E i \in 1..Len(ranking) : ranking[i].date = d]
  /\ UNCHANGED <<song, ranking, listing, empty_many_raises, completed, an>>

\* Faulty variant: the lookup waits while another call populates the date.
RankingCached_SingleFlight(t) ==
  /\ th[t].pc = "ranking_cached"
  /\ \A u \in Threads \ {t} :
       ~( /\ th[u].date = th[t].date
          /\ th[u].pc \in {"fetch_ranking", "song_cached", "fetch_songs",
                            "cache_songs_read", "cache_songs_insert",
                            "cache_ranking"} )
  /\ LET c == ranking_cached(ranking, th[t].date)
     IN th' = [th EXCEPT ![t].hit = c,
                         ![t].pc = IF c THEN "get_ranking" ELSE "fetch_ranking"]
  /\ UNCHANGED <<song, ranking, listing, empty_many_raises, completed, an>>

\* line 114: if not self.db.ranking_cached(date)
RankingCached(t) ==
  /\ th[t].pc = "ranking_cached"
  /\ LET c == ranking_cached(ranking, th[t].date)
     IN th' = [th EXCEPT ![t].hit = c,
                         ![t].pc = IF c THEN "get_ranking" ELSE "fetch_ranking"]
  /\ UNCHANGED <<song, ranking, listing, empty_many_raises, completed, an>>

\* lines 258-260: the chart of the date, its first MAX_SONGS rows.
FetchRanking(t) ==
  /\ th[t].pc = "fetch_ranking"
  /\ LET page == PageOf(listing, th[t].date)
     IN th' = IF ~page.ok
                THEN [Fail(t, "scrape") EXCEPT ![t].net = @ + 1]
                ELSE [th EXCEPT ![t].ranking = Prefix(page.rows, MAX_SONGS),
                                ![t].net = @ + 1,
                                ![t].i = 1,
                                ![t].pc = IF page.rows = <<>> THEN "fetch_songs"
                                          ELSE "song_cached"]
  /\ UNCHANGED <<song, ranking, listing, empty_many_raises, completed, an>>

\* lines 263-265, one iteration: song_cached of the i-th chart string.
SongCached(t) ==
  /\ th[t].pc = "song_cached"
  /\ LET k == th[t].ranking[th[t].i]
     IN th' = [th EXCEPT
                ![t].songs_to_fetch =
                   IF song_cached(song, k) THEN @ ELSE Append(@, k),
                ![t].i = @ + 1,
                ![t].pc = IF th[t].i = Len(th[t].ranking) THEN "fetch_songs"
                          ELSE "song_cached"]
  /\ UNCHANGED <<song, ranking, listing, empty_many_raises, completed, an>>

\* lines 267-274: asyncio.run(_fetch_songs()).
FetchSongs(t) ==
  /\ th[t].pc = "fetch_songs"
  /\ LET r == _fetch_songs(th[t].songs_to_fetch)
     IN th' = IF r.raised
                THEN [Fail(t, "resolve") EXCEPT ![t].net = @ + r.calls,
                                                ![t].queries = r.queries]
                ELSE [th EXCEPT ![t].songs = r.songs, ![t].net = @ + r.calls,
                                ![t].queries = r.queries,
                                ![t].pc = "cache_songs_read"]
  /\ UNCHANGED <<song, ranking, listing, empty_many_raises, completed, an>>

\* Database.cache_songs, lines 49-58: read the cached keys, filter.
CacheSongsRead(t) ==
  /\ th[t].pc = "cache_songs_read"
  /\ LET cached_songs == [i \in 1..Len(song) |-> <<song[i].artist_title>>]
         keep == songs_to_cache(th[t].songs, cached_songs)
     IN th' = [th EXCEPT ![t].songs = keep,
                         ![t].pc = IF Len(keep) = 0 THEN "cache_ranking"
                                   ELSE "cache_songs_insert"]
  /\ UNCHANGED <<song, ranking, listing, empty_many_raises, completed, an>>

\* Faulty variant: the insert rewrites the table with the new batch.
CacheSongsInsert_Rewrite(t) ==
  /\ th[t].pc = "cache_songs_insert"
  /\ LET r == InsertSongRows(<<>>, SongData(th[t].songs))
     IN /\ song' = r.tbl
        /\ th' = IF r.err = "ok" THEN [th EXCEPT ![t].pc = "cache_ranking"]
                  ELSE Fail(t, r.err)
  /\ UNCHANGED <<ranking, listing, empty_many_raises, completed, an>>

\* Database.cache_songs, lines 60-73: the executemany under the lock.
CacheSongsInsert(t) ==
  /\ th[t].pc = "cache_songs_insert"
  /\ LET r == InsertSongRows(song, SongData(th[t].songs))
     IN /\ song' = r.tbl
        /\ th' = IF r.err = "ok" THEN [th EXCEPT ![t].pc = "cache_ranking"]
                  ELSE Fail(t, r.err)
  /\ UNCHANGED <<ranking, listing, empty_many_raises, completed, an>>

\* Database.cache_ranking
CacheRanking(t) ==
  /\ th[t].pc = "cache_ranking"
  /\ LET data == RankingData(th[t].ranking, th[t].date)
         r == IF data = <<>> /\ empty_many_raises
                THEN [tbl |-> ranking, err |-> "empty_many"]
                ELSE InsertRankingRows(ranking, song, data)
     IN /\ ranking' = r.tbl
        /\ th' = IF r.err = "ok" THEN [th EXCEPT ![t].pc = "get_ranking"]
                  ELSE Fail(t, r.err)
  /\ UNCHANGED <<song, listing, empty_many_raises, completed, an>>

\* line 119: return self.db.get_ranking(date)[:top_n]
GetRanking(t, n) ==
  /\ th[t].pc = "get_ranking"
  /\ th' = [th EXCEPT ![t].out = Prefix(get_ranking(song, ranking, th[t].date), n),
                       ![t].top_n = n,
                       ![t].pc = "done"]
  /\ UNCHANGED <<song, ranking, listing, empty_many_raises, completed, an>>

\* The call has returned or raised; the worker takes the next request.
Finish(t) ==
  /\ th[t].pc \in {"done", "failed"}
  /\ completed' = completed \cup {th[t].date}
  /\ th' = [th EXCEPT ![t] = Idle(th[t].ncalls)]
  /\ UNCHANGED <<song, ranking, listing, empty_many_raises, an>>

\* A step that leaves the lock as it was.
LockKept == UNCHANGED <<lock, in_db>>

\* Every `with self.lock:` block of a call is one step here: the lock is
\* free before and after it.
Next ==
  \E t \in Threads :
    \/ \E d \in Dates : Call(t, d) /\ LockKept
    \/ RankingCached(t) /\ LockKept
    \/ FetchRanking(t) /\ LockKept
    \/ SongCached(t) /\ LockKept
    \/ FetchSongs(t) /\ LockKept
    \/ CacheSongsRead(t) /\ LockKept
    \/ CacheSongsInsert(t) /\ LockKept
    \/ CacheRanking(t) /\ LockKept
    \/ \E n \in TopNs : GetRanking(t, n) /\ LockKept
    \/ Finish(t) /\ LockKept

Spec == Init /\ [][Next]_vars

\* ------------------------------------------------------------- calendar

\* A day is its number of days since 1970-01-01 (a normalized Timestamp).

\* The civil date of a day: [y, m, d].
CivilFromDays(day) ==
  LET z == day + 719468
      era == z \div 146097
      doe == z - era * 146097
      yoe == (doe - doe \div 1460 + doe \div 36524 - doe \div 146096) \div 365
      doy == doe - (365 * yoe + yoe \div 4 - yoe \div 100)
      mp == (5 * doy + 2) \div 153
      d == doy - (153 * mp + 2) \div 5 + 1
      m == IF mp < 10 THEN mp + 3 ELSE mp - 9
  IN [y |-> yoe + era * 400 + (IF m <= 2 THEN 1 ELSE 0), m |-> m, d |-> d]

\* The day of a civil date.
DaysFromCivil(y, m, d) ==
  LET yy == IF m <= 2 THEN y - 1 ELSE y
      era == yy \div 400
      yoe == yy - era * 400
      doy == (153 * (IF m > 2 THEN m - 3 ELSE m + 9) + 2) \div 5 + d - 1
      doe == yoe * 365 + yoe \div 4 - yoe \div 100 + doy
  IN era * 146097 + doe - 719468

\* date.strftime("%Y%m%d"), as the INTEGER the date column holds.
StrfCompact(day) ==
  LET c == CivilFromDays(day) IN c.y * 10000 + c.m * 100 + c.d

\* date.strftime('%Y-%m-%d'): the fields of the ISO label.
StrfIso(day) ==
  LET c == CivilFromDays(day) IN <<c.y, "-", c.m, "-", c.d>>

\* pd.to_datetime(date, format='%Y%m%d').normalize(): the day, or -1 for
\* a text that is no date (ValueError).
ToDatetime(date) ==
  LET y == date \div 10000
      m == (date \div 100) % 100
      d == date % 100
  IN IF m \in 1..12 /\ d \in 1..31 /\ StrfCompact(DaysFromCivil(y, m, d)) = date
       THEN DaysFromCivil(y, m, d)
       ELSE -1

\* ------------------------------------------- get_n_songs_for_date, in one go

\* Storage._fetch_data run by one thread alone: [err, ranking, songs].
_fetch_data(song_tbl, lst, date) ==
  LET page == PageOf(lst, date)
  IN IF ~page.ok THEN [err |-> "scrape", ranking |-> <<>>, songs |-> <<>>]
     ELSE
       LET chart == Prefix(page.rows, MAX_SONGS)
           songs_to_fetch == SelectSeq(chart, LAMBDA k : ~song_cached(song_tbl, k))
           r == _fetch_songs(songs_to_fetch)
       IN [err |-> IF r.raised THEN "resolve" ELSE "ok",
           ranking |-> chart, songs |-> r.songs]

\* Database.cache_songs run by one thread alone: [tbl, err].
cache_songs(song_tbl, songs) ==
  LET cached_songs == [i \in 1..Len(song_tbl) |-> <<song_tbl[i].artist_title>>]
      keep == songs_to_cache(songs, cached_songs)
  IN IF Len(keep) = 0 THEN [tbl |-> song_tbl, err |-> "ok"]
     ELSE InsertSongRows(song_tbl, SongData(keep))

\* Database.cache_ranking: [tbl, err].
cache_ranking(ranking_tbl, song_tbl, chart, date, emr) ==
  LET data == RankingData(chart, date)
  IN IF data = <<>> /\ emr THEN [tbl |-> ranking_tbl, err |-> "empty_many"]
     ELSE InsertRankingRows(ranking_tbl, song_tbl, data)

\* The result of a call: the tables after it, its error, what it returns.
CallResult(song_tbl, ranking_tbl, err, out) ==
  [song |-> song_tbl, ranking |-> ranking_tbl, err |-> err, out |-> out]

\* line 119: return self.db.get_ranking(date)[:top_n]
Served(song_tbl, ranking_tbl, date, top_n) ==
  CallResult(song_tbl, ranking_tbl, "ok",
             Prefix(get_ranking(song_tbl, ranking_tbl, date), top_n))

\* line 117, given what cache_ranking did (cr).
AfterCacheRanking(song_tbl, cr, date, top_n) ==
  IF cr.err # "ok" THEN CallResult(song_tbl, cr.tbl, cr.err, <<>>)
  ELSE Served(song_tbl, cr.tbl, date, top_n)

\* line 116, given what cache_songs did (cs).
AfterCacheSongs(cs, ranking_tbl, chart, emr, date, top_n) ==
  IF cs.err # "ok" THEN CallResult(cs.tbl, ranking_tbl, cs.err, <<>>)
  ELSE AfterCacheRanking(cs.tbl,
                         cache_ranking(ranking_tbl, cs.tbl, chart, date, emr),
                         date, top_n)

\* line 115, given what _fetch_data did (f).
AfterFetchData(song_tbl, ranking_tbl, f, emr, date, top_n) ==
  IF f.err # "ok" THEN CallResult(song_tbl, ranking_tbl, f.err, <<>>)
  ELSE AfterCacheSongs(cache_songs(song_tbl, f.songs), ranking_tbl, f.ranking,
                       emr, date, top_n)

\* Storage.get_n_songs_for_date run by one thread alone.
get_n_songs_for_date(song_tbl, ranking_tbl, lst, emr, date, top_n) ==
  IF ranking_cached(ranking_tbl, date)
    THEN Served(song_tbl, ranking_tbl, date, top_n)
    ELSE AfterFetchData(song_tbl, ranking_tbl, _fetch_data(song_tbl, lst, date),
                        emr, date, top_n)

\* -------------------------------------------------------------- analytics

\* dict[key] = value on a dict kept as the sequence of its items in
\* insertion order: a present key keeps its place.
RECURSIVE DictUpdate(_, _, _)
DictUpdate(items, key, value) ==
  IF items = <<>> THEN << [key |-> key, value |-> value] >>
  ELSE IF Head(items).key = key
    THEN << [key |-> key, value |-> value] >> \o Tail(items)
  ELSE << Head(items) >> \o DictUpdate(Tail(items), key, value)

DictHas(items, key) == \E i \in 1..Len(items) : items[i].key = key

DictGet(items, key) ==
  items[CHOOSE i \in 1..Len(items) : items[i].key = key].value

DictKeys(items) == [i \in 1..Len(items) |-> items[i].key]

DictValues(items) == [i \in 1..Len(items) |-> items[i].value]

\* Faulty variant: the empty-string genre is tallied like any other.
RECURSIVE TallyGenres_CountEmpty(_, _)
TallyGenres_CountEmpty(result, genres) ==
  IF genres = <<>> THEN result
  ELSE
    LET genre == Head(genres)
        r0 == IF DictHas(result, genre) THEN result ELSE DictUpdate(result, genre, 0)
    IN TallyGenres_CountEmpty(DictUpdate(r0, genre, DictGet(r0, genre) + 1),
                              Tail(genres))

\* get_genres_count, lines 124-129: the genres of one song.
RECURSIVE TallyGenres(_, _)
TallyGenres(result, genres) ==
  IF genres = <<>> THEN result
  ELSE IF Head(genres) = <<>> THEN TallyGenres(result, Tail(genres))
  ELSE
    LET genre == Head(genres)
        r0 == IF DictHas(result, genre) THEN result ELSE DictUpdate(result, genre, 0)
    IN TallyGenres(DictUpdate(r0, genre, DictGet(r0, genre) + 1), Tail(genres))

\* get_genres_count, lines 122-133, on the songs get_n_songs_for_date gave.
RECURSIVE TallySongs(_, _)
TallySongs(result, songs) ==
  IF songs = <<>> THEN result
  ELSE TallySongs(TallyGenres(result, Head(songs).genres), Tail(songs))

get_genres_count(songs) ==
  LET result == TallySongs(<<>>, songs)
  IN [values |-> DictValues(result), labels |-> DictKeys(result)]

\* line 149: if days_after < 0: days_after = 0
ClampDaysAfter(days_after) == IF days_after < 0 THEN 0 ELSE days_after

\* Faulty variant: the end of the window is not clamped to yesterday.
PopularityWindow_NoClamp(timestamp_now, date_dt) ==
  IF timestamp_now - date_dt > 15
    THEN [start_date |-> date_dt - 15, end_date |-> date_dt + 14]
  ELSE
    LET days_before == Min(15, (date_dt - timestamp_now) + 14)
        days_after == ClampDaysAfter(total_days - days_before - 1)
    IN [start_date |-> date_dt - days_before, end_date |-> date_dt + days_after]

\* Faulty variant: the start is not recomputed once the end is moved to
\* yesterday (lines 157-159 missing).
PopularityWindow_KeepStart(timestamp_now, date_dt) ==
  IF timestamp_now - date_dt > 15
    THEN [start_date |-> date_dt - 15, end_date |-> date_dt + 14]
  ELSE
    LET days_before == Min(15, (date_dt - timestamp_now) + 14)
        days_after == ClampDaysAfter(total_days - days_before - 1)
        start_date == date_dt - days_before
        end_date == date_dt + days_after
    IN IF end_date >= timestamp_now
         THEN [start_date |-> start_date, end_date |-> timestamp_now - 1]
         ELSE [start_date |-> start_date, end_date |-> end_date]

\* get_popularity_over_time, lines 137-161: the window of a query date,
\* both as days: [start_date, end_date].
PopularityWindow(timestamp_now, date_dt) ==
  IF timestamp_now - date_dt > 15
    THEN [start_date |-> date_dt - 15, end_date |-> date_dt + 14]
  ELSE
    LET days_before == Min(15, (date_dt - timestamp_now) + 14)
        days_after == ClampDaysAfter(total_days - days_before - 1)
        start_date == date_dt - days_before
        end_date == date_dt + days_after
    IN IF end_date >= timestamp_now
         THEN LET end2 == timestamp_now - 1
                  days_after2 == end2 - date_dt
                  days_before2 == total_days - days_after2 - 1
              IN [start_date |-> date_dt - days_before2, end_date |-> end2]
         ELSE [start_date |-> start_date, end_date |-> end_date]

\* Faulty variant: the scan goes on after a match (the break is missing).
RECURSIVE ScanDay_NoBreak(_, _, _, _, _)
ScanDay_NoBreak(result, songs, title, label, i) ==
  IF i >= Len(songs) THEN result
  ELSE ScanDay_NoBreak(
         DictUpdate(result, label,
                    IF songs[i + 1].title = title THEN MAX_SONGS - i ELSE 0),
         songs, title, label, i + 1)

\* get_popularity_over_time, lines 170-175: the scan of one day's songs
\* from position i (0-based) on.
RECURSIVE ScanDay(_, _, _, _, _)
ScanDay(result, songs, title, label, i) ==
  IF i >= Len(songs) THEN result
  ELSE IF songs[i + 1].title = title
    THEN DictUpdate(result, label, MAX_SONGS - i)
  ELSE ScanDay(DictUpdate(result, label, 0), songs, title, label, i + 1)

\* --------------------------------------------- the analytics requests

\* Requests the analytics specification serves.
MaxRequests == 2

\* Days around now the window specification draws the query date from.
WinSpan == 40

\* now: 2024-03-01 and the days around it (the window crosses February).
AnNow == 19783

WinNows == {AnNow - 1, AnNow, AnNow + 306}

\* Offsets (days from now) of the dates a home page request selects.
HomeOffsets == {-20, -16, -3, 0}

SongRanks == {0, 2}

AnTopNs == {1, 3}

AnPages ==
  { Page(<<K_BU, K_DWX>>), Page(<<K_BU, K_GT, K_AT>>), Page(<<>>), NoPage }

\* Storage.__init__, lines 109-110, at the time now.
AnStart(now) ==
  [pc |-> "ready", now |-> now, selected_date |-> StrfCompact(now - 1),
   top_n |-> 15, reqs |-> 0, kind |-> "none", song_rank |-> 0, start_date |-> 0,
   end_date |-> 0, day |-> 0, target |-> <<>>, songs |-> <<>>, result |-> <<>>,
   out |-> <<>>, err |-> "none"]

InitAn ==
  /\ song = <<>>
  /\ ranking = <<>>
  /\ listing \in [1..3 -> AnPages]
  /\ empty_many_raises \in BOOLEAN
  /\ th = [t \in Threads |-> Idle(0)]
  /\ completed = {}
  /\ an = AnStart(AnNow)
  /\ lock = FALSE
  /\ in_db = {}

InitWin ==
  /\ song = <<>>
  /\ ranking = <<>>
  /\ listing = [i \in 1..3 |-> NoPage]
  /\ empty_many_raises = FALSE
  /\ th = [t \in Threads |-> Idle(0)]
  /\ completed = {}
  /\ lock = FALSE
  /\ in_db = {}
  /\ \E now \in WinNows, k \in (0 - WinSpan)..WinSpan :
       an = [AnStart(now) EXCEPT !.selected_date = StrfCompact(now + k)]

\* A request starts: what the last one left is cleared.
AnBegin(kind) ==
  [an EXCEPT !.kind = kind, !.reqs = @ + 1, !.song_rank = 0, !.start_date = 0,
             !.end_date = 0, !.day = 0, !.target = <<>>, !.songs = <<>>,
             !.result = <<>>, !.out = <<>>, !.err = "none"]

\* app.py home_page: select the date and top_n, render the top n.
HomePage(d, n) ==
  /\ an.pc = "ready"
  /\ an.reqs < MaxRequests
  /\ LET r == get_n_songs_for_date(song, ranking, listing, empty_many_raises, d, n)
     IN /\ song' = r.song
        /\ ranking' = r.ranking
        /\ an' = [AnBegin("home") EXCEPT !.selected_date = d, !.top_n = n,
                                         !.songs = r.out, !.err = r.err]
  /\ UNCHANGED <<listing, empty_many_raises, th, completed>>

\* app.py get_pie_data: Storage.get_genres_count(selected_date).
GenresData ==
  /\ an.pc = "ready"
  /\ an.reqs < MaxRequests
  /\ LET r == get_n_songs_for_date(song, ranking, listing, empty_many_raises,
                                   an.selected_date, an.top_n)
     IN /\ song' = r.song
        /\ ranking' = r.ranking
        /\ an' = [AnBegin("genres") EXCEPT
                    !.songs = r.out, !.err = r.err,
                    !.out = IF r.err = "ok" THEN get_genres_count(r.out) ELSE <<>>]
  /\ UNCHANGED <<listing, empty_many_raises, th, completed>>

\* app.py get_bar_data, get_popularity_over_time lines 137-161: the window.
PopularityData(song_rank) ==
  /\ an.pc = "ready"
  /\ an.reqs < MaxRequests
  /\ LET date_dt == ToDatetime(an.selected_date)
         w == PopularityWindow(an.now, date_dt)
     IN an' = IF date_dt = -1
                THEN [AnBegin("popularity") EXCEPT !.err = "value"]
                ELSE [AnBegin("popularity") EXCEPT
                        !.pc = "target", !.song_rank = song_rank,
                        !.start_date = w.start_date, !.end_date = w.end_date]
  /\ UNCHANGED <<song, ranking, listing, empty_many_raises, th, completed>>

\* line 164: target_song = get_n_songs_for_date(date, top_n)[song_rank]
PopTarget ==
  /\ an.pc = "target"
  /\ LET r == get_n_songs_for_date(song, ranking, listing, empty_many_raises,
                                   an.selected_date, an.top_n)
     IN /\ song' = r.song
        /\ ranking' = r.ranking
        /\ an' = IF r.err # "ok" THEN [an EXCEPT !.pc = "ready", !.err = r.err]
                 ELSE IF an.song_rank >= Len(r.out)
                   THEN [an EXCEPT !.pc = "ready", !.err = "index"]
                 ELSE [an EXCEPT !.pc = "days", !.day = an.start_date,
                                 !.target = r.out[an.song_rank + 1].title]
  /\ UNCHANGED <<listing, empty_many_raises, th, completed>>

\* lines 168-175, one iteration of the loop over date_list.
PopDay ==
  /\ an.pc = "days"
  /\ an.day <= an.end_date
  /\ LET r == get_n_songs_for_date(song, ranking, listing, empty_many_raises,
                                   StrfCompact(an.day), MAX_SONGS)
     IN /\ song' = r.song
        /\ ranking' = r.ranking
        /\ an' = IF r.err # "ok" THEN [an EXCEPT !.pc = "ready", !.err = r.err]
                 ELSE [an EXCEPT
                         !.day = @ + 1,
                         !.songs = r.out,
                         !.result = ScanDay(@, r.out, an.target, StrfIso(an.day), 0)]
  /\ UNCHANGED <<listing, empty_many_raises, th, completed>>

\* lines 177-191: the response.
PopReturn ==
  /\ an.pc = "days"
  /\ an.day > an.end_date
  /\ an' = [an EXCEPT
              !.pc = "ready", !.err = "ok",
              !.out = [values |-> DictValues(an.result),
                       labels |-> DictKeys(an.result),
                       tickvals |-> [i \in 1..MAX_SONGS |-> MAX_SONGS - (i - 1)],
                       ticktext |-> [i \in 1..MAX_SONGS |-> i]]]
  /\ UNCHANGED <<song, ranking, listing, empty_many_raises, th, completed>>

NextAn ==
  \/ \E k \in HomeOffsets, n \in AnTopNs :
       HomePage(StrfCompact(an.now + k), n) /\ LockKept
  \/ GenresData /\ LockKept
  \/ \E r \in SongRanks : PopularityData(r) /\ LockKept
  \/ PopTarget /\ LockKept
  \/ PopDay /\ LockKept
  \/ PopReturn /\ LockKept

SpecAn == InitAn /\ [][NextAn]_vars

NextWin == \E r \in SongRanks : PopularityData(r) /\ LockKept

SpecWin == InitWin /\ [][NextWin]_vars

\* ------------------------------------------------ the lock, step by step (C15)

\* The places of a call at which a Database method runs its
\* `with self.lock:` block (lines 38, 44, 49, 72, 85, 96).
StatementPcs ==
  {"ranking_cached", "song_cached", "cache_songs_read", "cache_songs_insert",
   "cache_ranking", "get_ranking"}

LockPages == { Page(<<K_AT, K_BU>>), Page(<<K_BU, K_DWX>>), Page(<<>>) }

InitLock ==
  /\ song = <<>>
  /\ ranking = <<>>
  /\ listing \in [1..2 -> LockPages]
  /\ empty_many_raises \in BOOLEAN
  /\ th = [t \in Threads |-> Idle(0)]
  /\ completed = {}
  /\ an = AnIdle
  /\ lock = FALSE
  /\ in_db = {}

\* Faulty variant: the block is entered without waiting for the lock.
Acquire_NoWait(t) ==
  /\ th[t].pc \in StatementPcs
  /\ t \notin in_db
  /\ lock' = TRUE
  /\ in_db' = in_db \cup {t}
  /\ UNCHANGED <<song, ranking, listing, empty_many_raises, th, completed, an>>

\* `with self.lock:` entered: Lock.acquire() returns once the lock is free.
Acquire(t) ==
  /\ th[t].pc \in StatementPcs
  /\ t \notin in_db
  /\ ~lock
  /\ lock' = TRUE
  /\ in_db' = in_db \cup {t}
  /\ UNCHANGED <<song, ranking, listing, empty_many_raises, th, completed, an>>

\* The `with` block left, by its end or by an exception: Lock.release().
Release(t) ==
  /\ t \in in_db
  /\ lock' = FALSE
  /\ in_db' = in_db \ {t}

\* The calls of Spec with every block entered and left in steps of its own:
\* the statement of a block takes effect as the block is left.
NextLock ==
  \E t \in Threads :
    \/ \E d \in Dates : Call(t, d) /\ LockKept
    \/ Acquire(t)
    \/ RankingCached(t) /\ Release(t)
    \/ FetchRanking(t) /\ LockKept
    \/ SongCached(t) /\ Release(t)
    \/ FetchSongs(t) /\ LockKept
    \/ CacheSongsRead(t) /\ Release(t)
    \/ CacheSongsInsert(t) /\ Release(t)
    \/ CacheRanking(t) /\ Release(t)
    \/ \E n \in TopNs : GetRanking(t, n) /\ Release(t)
    \/ Finish(t) /\ LockKept

SpecLock == InitLock /\ [][NextLock]_vars

\* ------------------------------------------- the resolver on its own (C11-C13, C16)

\* Length of the longest batch of uncached chart strings.
MaxBatch == 3

ResKeys == {K_AT, K_BU, K_CV, K_DWX, K_EY, K_FZ, K_GT}

\* The batches: chart strings, none twice (a chart lists a song once).
Batches ==
  { b \in UNION { [1..n -> ResKeys] : n \in 0..MaxBatch } :
      \A i, j \in 1..Len(b) : i # j => b[i] # b[j] }

\* A call that has fetched the chart of its date and found none of its
\* strings cached (line 265): it is about to run _fetch_songs (line 272).
InitRes ==
  /\ song = <<>>
  /\ ranking = <<>>
  /\ empty_many_raises = FALSE
  /\ completed = {}
  /\ an = AnIdle
  /\ lock = FALSE
  /\ in_db = {}
  /\ \E b \in Batches :
       /\ listing = <<NoPage, Page(b)>>
       /\ th = [t \in Threads |->
                  IF t = "t1"
                    THEN [Idle(1) EXCEPT !.pc = "fetch_songs", !.date = 20240101,
                                         !.ranking = b, !.songs_to_fetch = b,
                                         !.i = Len(b) + 1, !.net = 1]
                    ELSE Idle(0)]

NextRes == \E t \in Threads : FetchSongs(t) /\ LockKept

SpecRes == InitRes /\ [][NextRes]_vars

\* ----------------------------------------------------- claims, under Spec

SongKeys == {song[i].artist_title : i \in 1..Len(song)}

RowsOfDate(d) == {i \in 1..Len(ranking) : ranking[i].date = d}

\* C1 as stated: whenever get_n_songs_for_date is called for a date for
\* which an earlier call has already ended, the later call issues no
\* remote call (chart fetch, search or album lookup).
C1_SecondCallNoNetwork ==
  \A t \in Threads : th[t].repeat => th[t].net = 0

\* C1 amended: a call of get_n_songs_for_date that starts when the cache
\* holds a ranking row of its date issues no remote call; in particular
\* the second of two calls in sequence issues none when the first one
\* left a ranking row behind.
C1_CachedDateNoNetwork ==
  \A t \in Threads : th[t].warm => (th[t].net = 0 /\ th[t].pc # "fetch_ranking")

C1_Witness ==
  \E t \in Threads :
    /\ th[t].pc = "done" /\ th[t].repeat /\ th[t].warm
    /\ th[t].out # <<>> /\ th[t].net = 0

\* C2: a call of get_n_songs_for_date(D, n) that returns yields exactly
\* min(n, L) songs for the L entries of D's chart, the k-th with rank k and
\* with the artist, title and cover of the song row of the chart's k-th
\* string.
C2_ReturnsTopOfChart ==
  \A t \in Threads :
    th[t].pc = "done" =>
      LET chart == PageOf(listing, th[t].date).rows
          res == th[t].out
      IN /\ Len(res) = Min(th[t].top_n, Len(chart))
         /\ \A k \in 1..Len(res) :
              /\ res[k].rank = k
              /\ \E i \in 1..Len(song) :
                   /\ song[i].artist_title = chart[k]
                   /\ song[i].artist = res[k].artist
                   /\ song[i].title = res[k].title
                   /\ song[i].cover_url = res[k].cover_url

\* C3: cache_songs called with songs whose key is already in cache.song
\* skips them and raises nothing: no call ends in a duplicate-key error of
\* the song insert.
C3_PresentKeysSkipped ==
  \A t \in Threads : th[t].err # "song_pk"

\* C4: cache.song holds at most one row per artist_title and cache.ranking
\* at most one row per (date, rank), in every reachable state.
C4_UniqueKeys ==
  /\ \A i, j \in 1..Len(song) :
       song[i].artist_title = song[j].artist_title => i = j
  /\ \A i, j \in 1..Len(ranking) :
       (ranking[i].date = ranking[j].date /\ ranking[i].rank = ranking[j].rank)
         => i = j

C4_Witness ==
  /\ \E t \in Threads : th[t].err = "song_pk"
  /\ Len(song) > 0

\* C5: every ranking row's artist_title is the key of a row of cache.song,
\* in every reachable state, also after a populate in which the resolver
\* produced no song for a chart entry.
C5_ReferentialIntegrity ==
  \A i \in 1..Len(ranking) : ranking[i].artist_title \in SongKeys

C5_Witness ==
  /\ \E t \in Threads : th[t].err = "ranking_fk"
  /\ Len(ranking) > 0

\* C6: a row of cache.song or cache.ranking, once written, is in the table
\* unchanged after every later step, and no other row takes its key.
C6_WriteOnce ==
  [][/\ \A i \in 1..Len(song) :
          /\ \E j \in 1..Len(song') : song'[j] = song[i]
          /\ \A j \in 1..Len(song') :
               song'[j].artist_title = song[i].artist_title => song'[j] = song[i]
     /\ \A i \in 1..Len(ranking) :
          /\ \E j \in 1..Len(ranking') : ranking'[j] = ranking[i]
          /\ \A j \in 1..Len(ranking') :
               (ranking'[j].date = ranking[i].date
                  /\ ranking'[j].rank = ranking[i].rank)
                 => ranking'[j] = ranking[i]]_vars

C6_Witness ==
  /\ \E t \in Threads : th[t].err = "ranking_pk"
  /\ \A d \in Dates : RowsOfDate(d) # {}

\* -------------------------------------------------- claims, under SpecWin

\* C7: for every query date and every now, the window of
\* get_popularity_over_time spans exactly 30 consecutive days
\* (end_date - start_date = 29) and its end_date is at most now - 1.
C7_WindowThirtyDaysBeforeToday ==
  an.pc = "target" =>
    /\ an.end_date - an.start_date = 29
    /\ an.end_date <= an.now - 1

C7_Witness ==
  /\ an.pc = "target"
  /\ ToDatetime(an.selected_date) > an.now
  /\ an.end_date = an.now - 1

\* The query date of the request, as a day.
QueryDay == ToDatetime(an.selected_date)

\* days_after as line 147 computes it, before the test of line 149.
DaysAfterRaw == total_days - Min(15, (QueryDay - an.now) + 14) - 1

\* C20: for a query date at most 15 days before now (today and future
\* dates included) the window is exactly [now - 30, now - 1] whatever the
\* date; the date lies in it if and only if it is before today; and the
\* test days_after < 0 of line 149 leaves days_after as computed.
C20_RecentDateWindowFixed ==
  (an.pc = "target" /\ an.now - QueryDay <= 15) =>
    /\ an.start_date = an.now - 30
    /\ an.end_date = an.now - 1
    /\ (an.start_date <= QueryDay /\ QueryDay <= an.end_date) <=> (QueryDay < an.now)
    /\ ClampDaysAfter(DaysAfterRaw) = DaysAfterRaw

\* The date exactly 15 days before now: the window holds it and still
\* starts 30 days before now.
C20_Witness ==
  /\ an.pc = "target"
  /\ an.now - QueryDay = 15
  /\ an.start_date = an.now - 30
  /\ an.start_date <= QueryDay /\ QueryDay <= an.end_date

\* --------------------------------------------------- claims, under SpecAn

AnReturned(kind) == an.pc = "ready" /\ an.kind = kind /\ an.err = "ok"

\* C8: the response of get_popularity_over_time has exactly one label and
\* one value per day of the window, the labels being the ISO dates of
\* start_date..end_date in order, whatever each day's ranking holds.
C8_OneRecordPerDay ==
  AnReturned("popularity") =>
    /\ Len(an.out.values) = an.end_date - an.start_date + 1
    /\ Len(an.out.labels) = an.end_date - an.start_date + 1
    /\ \A k \in 1..Len(an.out.labels) :
         an.out.labels[k] = StrfIso(an.start_date + k - 1)

\* Positions (0-based) of the day's songs whose title is the target's.
TitleMatches == {i \in 0..(Len(an.songs) - 1) : an.songs[i + 1].title = an.target}

LeastOf(S) == CHOOSE x \in S : \A y \in S : x <= y

\* C9: after the loop has handled a day whose top-100 list is non-empty,
\* the value recorded for that day is 100 - i for the smallest 0-based
\* position i whose title equals the target's title, and 0 when no entry
\* of the day has that title.
C9_ValueOfDay ==
  (an.pc = "days" /\ an.day > an.start_date /\ an.songs # <<>>) =>
    LET label == StrfIso(an.day - 1)
    IN /\ DictHas(an.result, label)
       /\ DictGet(an.result, label) =
            IF TitleMatches = {} THEN 0 ELSE 100 - LeastOf(TitleMatches)

C9_Witness ==
  /\ an.pc = "days" /\ an.day > an.start_date /\ an.songs # <<>>
  /\ Cardinality(TitleMatches) = 2
  /\ DictGet(an.result, StrfIso(an.day - 1)) = 99
  /\ \E i \in 1..Len(an.result) : an.result[i].value = 0

\* The genres of the songs of the genres request, in song order then
\* genre order, without the empty string.
GenreOccurrences ==
  SelectSeq(Flatten([i \in 1..Len(an.songs) |-> an.songs[i].genres]),
            LAMBDA g : g # <<>>)

FirstOccurrence(g) ==
  LeastOf({i \in 1..Len(GenreOccurrences) : GenreOccurrences[i] = g})

\* C10: get_genres_count returns labels and values of equal length; labels
\* holds each distinct non-empty genre of the top-n songs once, in the
\* order of first occurrence; values[k] is the number of occurrences of
\* labels[k]; the empty string is neither a label nor counted.
C10_GenreCounts ==
  AnReturned("genres") =>
    LET labels == an.out.labels
        values == an.out.values
    IN /\ Len(labels) = Len(values)
       /\ {labels[k] : k \in 1..Len(labels)} =
            {GenreOccurrences[i] : i \in 1..Len(GenreOccurrences)}
       /\ \A k, l \in 1..Len(labels) :
            k < l => FirstOccurrence(labels[k]) < FirstOccurrence(labels[l])
       /\ \A k \in 1..Len(labels) :
            /\ labels[k] # <<>>
            /\ values[k] = Cardinality({i \in 1..Len(GenreOccurrences) :
                                          GenreOccurrences[i] = labels[k]})

C10_Witness ==
  /\ AnReturned("genres")
  /\ \E i \in 1..Len(an.songs) : an.songs[i].genres = << <<>> >>
  /\ an.out.labels = <<Pop, RnB>>
  /\ an.out.values = <<2, 1>>

\* -------------------------------------------------- claims, under SpecRes

\* The place of the first '-' of a text, 0 when it has none.
RECURSIVE FirstDash(_, _)
FirstDash(s, i) ==
  IF i > Len(s) THEN 0
  ELSE IF s[i] = "-" THEN i
  ELSE FirstDash(s, i + 1)

BeforeFirstDash(s) == Strip(SubSeq(s, 1, FirstDash(s, 1) - 1))

AfterFirstDash(s) == Strip(SubSeq(s, FirstDash(s, 1) + 1, Len(s)))

\* The title the resolver parses from a chart string (line 233).
ParsedTitle(s) == Strip(Split(s, "-")[2])

\* The calls that have run _fetch_songs to its end or to its exception.
Resolved(t) == th[t].queries # <<>> /\ th[t].pc \in {"cache_songs_read", "failed"}

\* Both the search for the whole string and the search for the title
\* come back with an empty result set.
NotFound(k) ==
  LET a == DeezerSearch(k)
      b == DeezerSearch(AfterFirstDash(k))
  IN /\ "data" \in DOMAIN a /\ a.data = <<>>
     /\ "data" \in DOMAIN b /\ b.data = <<>>

DefaultSong(k) ==
  [artist_title |-> k, artist |-> BeforeFirstDash(k), title |-> AfterFirstDash(k),
   cover_url |-> PLACEHOLDER_COVER, genres |-> <<>>]

\* C11 as stated: when both searches of a chart string return an empty
\* result set, the batch handed to cache_songs holds the default song of
\* that string (artist and title around the first '-', the placeholder
\* cover, no genres).
C11_DefaultSongInBatch ==
  \A t \in Threads :
    th[t].pc = "cache_songs_read" =>
      \A i \in 1..Len(th[t].songs_to_fetch) :
        NotFound(th[t].songs_to_fetch[i]) =>
          \E j \in 1..Len(th[t].songs) :
            th[t].songs[j] = DefaultSong(th[t].songs_to_fetch[i])

\* The result set a resolution selected from: the answer to its last search.
ResultsUsed(t, i) ==
  DeezerSearch(th[t].queries[i][Len(th[t].queries[i])]).data

\* The result the selection rule names: the first one with exactly the
\* title, else the one at position 0.
PickOf(results, title) ==
  LET exact == {r \in 1..Len(results) : results[r].title = title}
  IN IF exact # {} THEN results[LeastOf(exact)] ELSE results[1]

PlaceOf(k, lst) == LeastOf({i \in 1..Len(lst) : lst[i] = k})

\* C12: every song of a resolved batch carries the title, artist and cover
\* of the first result whose title is exactly (case-sensitively) the parsed
\* title, wherever that result stands, and of the result at position 0
\* only when no result has exactly that title.
C12_ExactTitleElseFirst ==
  \A t \in Threads :
    th[t].pc = "cache_songs_read" =>
      \A j \in 1..Len(th[t].songs) :
        LET k == th[t].songs[j].artist_title
            pick == PickOf(ResultsUsed(t, PlaceOf(k, th[t].songs_to_fetch)),
                           ParsedTitle(k))
        IN /\ th[t].songs[j].title = pick.title
           /\ th[t].songs[j].artist = pick.artist.name
           /\ th[t].songs[j].cover_url = pick.album.cover_big

\* A batch with a song taken from a later position (its title is exact, the
\* first result's is not) and a song taken from position 0 for want of an
\* exact title.
C12_Witness ==
  \E t \in Threads :
    /\ th[t].pc = "cache_songs_read"
    /\ \E j \in 1..Len(th[t].songs) :
         LET k == th[t].songs[j].artist_title
         IN /\ th[t].songs[j].title = ParsedTitle(k)
            /\ ResultsUsed(t, PlaceOf(k, th[t].songs_to_fetch))[1].title
                 # ParsedTitle(k)
    /\ \E j \in 1..Len(th[t].songs) :
         LET k == th[t].songs[j].artist_title
         IN /\ th[t].songs[j].title # ParsedTitle(k)
            /\ th[t].songs[j].title
                 = ResultsUsed(t, PlaceOf(k, th[t].songs_to_fetch))[1].title

\* C13 as stated: when the search for the whole string returns an empty
\* result set, the resolver searches a second time for the trimmed text
\* after the first '-' of the string, whatever the number of '-' in it,
\* and selects from that second result set when it is non-empty.
C13_SecondQueryAfterFirstDash ==
  \A t \in Threads :
    Resolved(t) =>
      \A i \in 1..Len(th[t].songs_to_fetch) :
        LET k == th[t].songs_to_fetch[i]
            first == DeezerSearch(k)
            second == DeezerSearch(AfterFirstDash(k))
        IN ("data" \in DOMAIN first /\ first.data = <<>>) =>
             /\ th[t].queries[i] = <<k, AfterFirstDash(k)>>
             /\ ( /\ th[t].pc = "cache_songs_read"
                  /\ "data" \in DOMAIN second
                  /\ second.data # <<>> ) =>
                  \E j \in 1..Len(th[t].songs) :
                    /\ th[t].songs[j].artist_title = k
                    /\ \E r \in 1..Len(second.data) :
                         th[t].songs[j].title = second.data[r].title

\* C16 as stated: a search or album response without the expected fields
\* costs the batch that one entry only: no exception leaves _fetch_songs,
\* and every song the other entries resolve to is handed to cache_songs.
C16_LookupErrorPerSong ==
  \A t \in Threads :
    Resolved(t) =>
      /\ th[t].pc = "cache_songs_read"
      /\ th[t].err = "none"
      /\ \A i \in 1..Len(th[t].songs_to_fetch) :
           LET r == _fetch_song_data(th[t].songs_to_fetch[i])
           IN r.kind = "song" =>
                \E j \in 1..Len(th[t].songs) : th[t].songs[j] = r.song

\* ------------------------------------------- claims on concurrent calls (Spec)

PopulatePcs ==
  {"fetch_ranking", "song_cached", "fetch_songs", "cache_songs_read",
   "cache_songs_insert", "cache_ranking"}

\* The call of t has found its date without ranking rows and is between
\* that check and the end of cache_ranking (lines 115-117).
InPopulate(t) == th[t].pc \in PopulatePcs /\ ~th[t].hit

\* C14: check, fetch and populate are not one atomic section. While one
\* call is anywhere between its failed ranking_cached check and the end
\* of its cache_ranking, and the date still has no ranking row, nothing
\* holds back a second call for the same date: its own check can run and
\* sends it to the fetch as well.
C14_CheckNotHeldBack ==
  \A t, u \in Threads :
    ( /\ t # u
      /\ th[t].pc = "ranking_cached"
      /\ InPopulate(u)
      /\ th[u].date = th[t].date
      /\ RowsOfDate(th[t].date) = {} )
    => ENABLED (RankingCached(t) /\ th'[t].pc = "fetch_ranking")

\* Two first calls for one date have both found it uncached and have both
\* fetched its chart: two chart fetches for one date.
C14_Witness ==
  \E d \in Dates :
    \A t \in Threads :
      /\ th[t].date = d
      /\ th[t].ncalls = 1
      /\ InPopulate(t)
      /\ ~th[t].warm
      /\ th[t].net >= 1
      /\ th[t].ranking # <<>>

\* ------------------------------------------------- claims, under SpecLock

\* A step of thread t that runs a statement on the connection.
RunsStatement(t) == th[t].pc \in StatementPcs /\ th'[t] # th[t]

\* C15: every statement of song_cached, ranking_cached, cache_songs,
\* cache_ranking and get_ranking runs in a step of a thread that is inside
\* a `with self.lock:` block while the lock is held; at no time are two
\* threads inside such a block; and the read of cache_songs leaves its
\* block, lock released, before the insert enters its own.
C15_StatementsUnderLock ==
  [][ /\ \A t \in Threads : RunsStatement(t) => (t \in in_db /\ lock)
      /\ Cardinality(in_db') <= 1
      /\ in_db' # {} => lock'
      /\ \A t \in Threads :
           (th[t].pc = "cache_songs_read" /\ th'[t].pc = "cache_songs_insert")
             => (t \notin in_db' /\ ~lock') ]_vars

\* Between the read and the insert of one call's cache_songs another
\* thread holds the lock for the insert of its own cache_songs.
C15_Witness ==
  \E t, u \in Threads :
    /\ t # u
    /\ th[t].pc = "cache_songs_insert" /\ t \notin in_db
    /\ th[u].pc = "cache_songs_insert" /\ u \in in_db
    /\ lock

\* ------------------------------------- claims on failed and racing calls (Spec)

\* The call of t has returned or raised and the thread has not gone on.
Ended(t) == th[t].pc \in {"done", "failed"}

\* The call of t is past a ranking_cached check that found no row.
Missed(t) == th[t].pc \notin {"idle", "ranking_cached"} /\ ~th[t].hit

\* C17 as stated: a call that fails between its failed ranking_cached
\* check and the end of cache_ranking (chart fetch, resolver, cache_songs
\* or part-way through cache_ranking) leaves the ranking rows of its date
\* as they were, so a date without rows is still without rows.
C17_FailedCallWritesNoRanking ==
  [][ \A t \in Threads :
        (InPopulate(t) /\ th'[t].pc = "failed") =>
          {i \in 1..Len(ranking') : ranking'[i].date = th[t].date}
            = RowsOfDate(th[t].date) ]_vars

\* The ranks of date d in cache.ranking, each as often as it is stored.
RanksOfDate(d) == [i \in RowsOfDate(d) |-> ranking[i].rank]

\* C18 as stated: of two calls in progress at once for one date with a
\* non-empty chart, both having found the date uncached, one ends with a
\* duplicate-key error of the song or the ranking insert, so that at most
\* one returns, and cache.ranking ends with exactly one row for every rank
\* of the chart.
C18_OneReturnsOtherDuplicateKey ==
  \A t, u \in Threads :
    ( /\ t # u
      /\ th[t].date = th[u].date
      /\ Ended(t) /\ Ended(u)
      /\ Missed(t) /\ Missed(u)
      /\ th[t].ranking # <<>> /\ th[u].ranking # <<>> )
    => /\ \E x \in {t, u} :
            th[x].pc = "failed" /\ th[x].err \in {"song_pk", "ranking_pk"}
       /\ \A r \in 1..Len(th[t].ranking) :
            Cardinality({i \in RowsOfDate(th[t].date) : ranking[i].rank = r}) = 1
       /\ Cardinality(RowsOfDate(th[t].date)) = Len(th[t].ranking)

\* Every string of the chart of date d resolves to a song: a call for d
\* alone, on an empty cache, caches the full ranking.
Resolvable(d) ==
  LET p == PageOf(listing, d)
  IN /\ p.ok
     /\ p.rows # <<>>
     /\ \A i \in 1..Len(p.rows) : _fetch_song_data(p.rows[i]).kind = "song"

\* C19 as stated: of two first calls in progress at once for two different
\* uncached dates, each with a chart it could cache alone, both end
\* without a storage error and with the full ranking of their date in
\* cache.ranking, also when the charts share a string neither had found
\* cached.
C19_DifferentDatesDoNotInterfere ==
  \A t, u \in Threads :
    ( /\ t # u
      /\ Missed(t) /\ Missed(u)
      /\ th[t].date # th[u].date
      /\ ~th[t].warm /\ ~th[u].warm
      /\ Resolvable(th[t].date) /\ Resolvable(th[u].date)
      /\ Ended(t) )
    => /\ th[t].pc = "done"
       /\ Cardinality(RowsOfDate(th[t].date)) = Len(th[t].ranking)

====
